---- MODULE Spec2Model ----
(***************************************************************************)
(* Model of the recipe extraction endpoint of cucinaloca                   *)
(* (src/src/app/api/parse-recipe/route.ts, the revision starting at line   *)
(* 297): the POST handler with its cache, timer and fetch, and the three   *)
(* extraction tiers it consults; and of the cache of the review summary    *)
(* endpoint (src/src/app/api/analyze-reviews/route.ts).                    *)
(*                                                                         *)
(* Text is a sequence of one-character strings, so that trim() and length  *)
(* are computed and not assumed.  A document is what the selectors of the  *)
(* tiers see of it: its ld+json script blocks, its Recipe-typed microdata  *)
(* elements, and, per selector of the heuristic tier, the texts of the     *)
(* elements the selector matches, all in document order.                   *)
(***************************************************************************)
EXTENDS Integers, Sequences, FiniteSets, TLC

VARIABLES
    recipeCache,  \* Map<string, Recipe> as the sequence of its entries, in insertion order
    recency,      \* history: the cached keys, least recently used (served or inserted) first
    req,          \* per request slot: position in POST, input, timer, fetch and response
    received,     \* number of requests received so far
    edoc,         \* extraction run: the document loaded by cheerio
    epc,          \* extraction run: position in lines 356-392 of POST
    erecipe,      \* extraction run: the local variable recipe
    econsulted,   \* extraction run: the tiers called so far, in call order
    eresp,        \* extraction run: the response produced
    nin,          \* normalizer run: the value handed to formatTime or parseInstructions
    npc,          \* normalizer run: "idle", "call" before the call, "done" after it
    nout,         \* normalizer run: the value returned
    reviewsCache, \* analyze-reviews: Map<string, string> as the sequence of its entries
    rreq,         \* analyze-reviews: per request slot, position in POST, input, response
    rreceived,    \* analyze-reviews: number of requests received so far
    openaiKey     \* analyze-reviews: whether process.env.OPENAI_API_KEY is set

hvars == <<recipeCache, recency, req, received>>
evars == <<edoc, epc, erecipe, econsulted, eresp>>
nvars == <<nin, npc, nout>>
rvars == <<reviewsCache, rreq, rreceived, openaiKey>>
vars ==
    <<recipeCache, recency, req, received, edoc, epc, erecipe, econsulted, eresp,
      nin, npc, nout, reviewsCache, rreq, rreceived, openaiKey>>

----------------------------------------------------------------------------
(* Text *)

IsSpace(c) == c \in {" ", "\t", "\n"}

RECURSIVE TrimStart(_)
TrimStart(s) == IF s # <<>> /\ IsSpace(Head(s)) THEN TrimStart(Tail(s)) ELSE s

RECURSIVE TrimEnd(_)
TrimEnd(s) ==
    IF s # <<>> /\ IsSpace(s[Len(s)]) THEN TrimEnd(SubSeq(s, 1, Len(s) - 1)) ELSE s

\* String.prototype.trim
Trim(s) == TrimEnd(TrimStart(s))

\* Array.prototype.includes on an array of texts
Includes(arr, t) == \E i \in 1..Len(arr) : arr[i] = t

\* JavaScript truthiness of a string
Truthy(s) == s # <<>>

tEmpty == <<>>
tBlank == <<" ", " ">>
tOk == <<"o", "k">>
tPie == <<"P", "i", "e">>
tSoup == <<"S", "o", "u", "p">>
tStew == <<" ", "S", "t", "e", "w", "s", "\n">>
tFlour == <<"f", "l", "o", "u", "r">>
tSalt == <<" ", "s", "a", "l", "t", " ">>
tEggs == <<"e", "g", "g", "s">>
tStir == <<"S", "t", "i", "r", " ", "i", "t">>
tMix == <<"M", "i", "x", " ", "i", "t", " ", "w", "e", "l", "l">>
tBake == <<" ", "B", "a", "k", "e", " ", "o", "n", "e", " ", "h", "o", "u", "r", " ">>
tUntitled == <<"U", "n", "t", "i", "t", "l", "e", "d", " ", "R", "e", "c", "i", "p", "e">>
tObjectObject == <<"[", "o", "b", "j", "e", "c", "t", " ", "O", "b", "j", "e", "c", "t", "]">>
tNull == <<"n", "u", "l", "l">>
tFive == <<"5">>

----------------------------------------------------------------------------
(* Duration normalizer *)

\* the undefined returned for a missing time
Undefined == <<"undefined">>

Digits == <<"0", "1", "2", "3", "4", "5", "6", "7", "8", "9">>

\* \d
IsDigit(c) == \E i \in 1..Len(Digits) : Digits[i] = c

DigitValue(c) == (CHOOSE i \in 1..Len(Digits) : Digits[i] = c) - 1

RECURSIVE DigitRun(_)
\* \d+ at the start of s: the longest run of digits, "" when s starts with none
DigitRun(s) ==
    IF s # <<>> /\ IsDigit(Head(s)) THEN <<Head(s)>> \o DigitRun(Tail(s)) ELSE <<>>

RECURSIVE ParseInt(_)
\* parseInt of a string of digits
ParseInt(digits) ==
    IF digits = <<>> THEN 0
    ELSE 10 * ParseInt(SubSeq(digits, 1, Len(digits) - 1)) + DigitValue(digits[Len(digits)])

RECURSIVE ToDecimal(_)
\* `${n}` for a number n >= 0
ToDecimal(n) ==
    IF n < 10 THEN <<Digits[n + 1]>> ELSE ToDecimal(n \div 10) \o <<Digits[(n % 10) + 1]>>

\* String.prototype.startsWith
StartsWith(s, prefix) == Len(s) >= Len(prefix) /\ SubSeq(s, 1, Len(prefix)) = prefix

Drop(s, n) == SubSeq(s, n + 1, Len(s))

\* (?:(\d+)X)? at the start of s: the digits captured ("" when the group does not
\* take part) and what follows the group
OptionalPart(s, unit) ==
    LET d == DigitRun(s) IN
    IF d # <<>> /\ Len(s) > Len(d) /\ s[Len(d) + 1] = unit
    THEN [digits |-> d, rest |-> Drop(s, Len(d) + 1)]
    ELSE [digits |-> <<>>, rest |-> s]

\* time.match(/PT(?:(\d+)H)?(?:(\d+)M)?/): the leftmost PT and the two groups after it
MatchDuration(time) ==
    LET starts == {i \in 1..(Len(time) - 1) : time[i] = "P" /\ time[i + 1] = "T"} IN
    IF starts = {} THEN [matched |-> FALSE, h |-> <<>>, m |-> <<>>]
    ELSE LET i == CHOOSE j \in starts : \A k \in starts : j <= k
             hp == OptionalPart(Drop(time, i + 1), "H")
             mp == OptionalPart(hp.rest, "M")
         IN  [matched |-> TRUE, h |-> hp.digits, m |-> mp.digits]

\* lines 634-638: the rendering by the components that are not zero
RenderDurationAlwaysBoth(time, hours, minutes) ==
    ToDecimal(hours) \o <<"h", " ">> \o ToDecimal(minutes) \o <<"m">>
RenderDuration(time, hours, minutes) ==
    IF hours # 0 /\ minutes # 0
    THEN ToDecimal(hours) \o <<"h", " ">> \o ToDecimal(minutes) \o <<"m">>
    ELSE IF hours # 0 THEN ToDecimal(hours) \o <<"h">>
    ELSE IF minutes # 0 THEN ToDecimal(minutes) \o <<"m">>
    ELSE time

formatTime(time) ==
    IF ~Truthy(time) THEN Undefined
    ELSE IF ~StartsWith(time, <<"P", "T">>) THEN time
    ELSE LET match == MatchDuration(time) IN
         IF ~match.matched THEN time
         ELSE RenderDuration(time,
                             ParseInt(IF Truthy(match.h) THEN match.h ELSE <<"0">>),
                             ParseInt(IF Truthy(match.m) THEN match.m ELSE <<"0">>))

----------------------------------------------------------------------------
(* Recipe values *)

\* the null a tier returns when it finds no recipe
Null == [null |-> TRUE]

\* the url a tier leaves in its recipe: the empty string
NoUrl == [scheme |-> "", rest |-> 0]

\* a recipe without times, as the heuristic tier builds it
Recipe(name, ingredients, instructions) ==
    [name |-> name, prepTime |-> Undefined, cookTime |-> Undefined,
     totalTime |-> Undefined, ingredients |-> ingredients,
     instructions |-> instructions, url |-> NoUrl]

\* the same record with its three time fields
WithTimes(recipe, prepTime, cookTime, totalTime) ==
    [recipe EXCEPT !.prepTime = prepTime, !.cookTime = cookTime,
                   !.totalTime = totalTime]

----------------------------------------------------------------------------
(* JSON values of a ld+json block, as far as the extractor inspects them *)

\* a field of a node: absent, a string, or a value of another type (s = String(value))
JAbsent == [k |-> "absent", s |-> <<>>]
JStr(s) == [k |-> "string", s |-> s]
JNum == [k |-> "number", s |-> tFive]

\* an element of recipeInstructions (or the single value): s = String(value)
StepStr(s) == [k |-> "string", s |-> s, text |-> JAbsent, name |-> JAbsent]
StepObj(text, name) == [k |-> "object", s |-> tObjectObject, text |-> text, name |-> name]
StepNull == [k |-> "null", s |-> tNull, text |-> JAbsent, name |-> JAbsent]
StepNum == [k |-> "number", s |-> tFive, text |-> JAbsent, name |-> JAbsent]

\* the recipeInstructions field: absent, one value, or an array of values
InstrAbsent == [k |-> "absent", v |-> StepNull, a |-> <<>>]
InstrOne(step) == [k |-> step.k, v |-> step, a |-> <<>>]
InstrArr(a) == [k |-> "array", v |-> StepNull, a |-> a]

\* the recipeIngredient field: absent, one string, or an array of fields
IngrAbsent == [k |-> "absent", s |-> <<>>, a |-> <<>>]
IngrStr(s) == [k |-> "string", s |-> s, a |-> <<>>]
IngrArr(a) == [k |-> "array", s |-> <<>>, a |-> a]

\* a node: null, or an object with its @type and the fields read from it
Node(type, name, ingr, instr) ==
    [k |-> "object", type |-> type, name |-> name,
     prepTime |-> JAbsent, cookTime |-> JAbsent, totalTime |-> JAbsent,
     recipeIngredient |-> ingr, recipeInstructions |-> instr]
NullNode ==
    [k |-> "null", type |-> "", name |-> JAbsent,
     prepTime |-> JAbsent, cookTime |-> JAbsent, totalTime |-> JAbsent,
     recipeIngredient |-> IngrAbsent, recipeInstructions |-> InstrAbsent]

\* the node with its prepTime, cookTime and totalTime fields
NodeTimes(node, prepTime, cookTime, totalTime) ==
    [node EXCEPT !.prepTime = prepTime, !.cookTime = cookTime, !.totalTime = totalTime]

\* a top-level element: the node itself and its @graph (absent, not an array, an array)
Item(node, graphK, graph) == [node |-> node, graphK |-> graphK, graph |-> graph]

\* a script block: its content is empty, not JSON, or JSON (one value or an array)
Block(raw, isArray, items) == [raw |-> raw, isArray |-> isArray, items |-> items]

----------------------------------------------------------------------------
(* Shared helpers of the tiers *)

\* lines 603-608: what the map callback of parseInstructions returns for one element
StepTextNoName(e) ==
    IF e.k = "string" THEN e.s
    ELSE IF e.k = "object" /\ e.text.k = "string" THEN e.text.s
    ELSE e.s
StepTextNameFirst(e) ==
    IF e.k = "string" THEN e.s
    ELSE IF e.k = "object" /\ e.name.k = "string" THEN e.name.s
    ELSE IF e.k = "object" /\ e.text.k = "string" THEN e.text.s
    ELSE e.s
StepText(e) ==
    IF e.k = "string" THEN e.s
    ELSE IF e.k = "object" /\ e.text.k = "string" THEN e.text.s
    ELSE IF e.k = "object" /\ e.name.k = "string" THEN e.name.s
    ELSE e.s

RECURSIVE StepTexts(_)
\* instructions.map(...) of parseInstructions
StepTexts(a) == IF a = <<>> THEN <<>> ELSE <<StepText(Head(a))>> \o StepTexts(Tail(a))

RECURSIVE FilterBoolean(_)
\* .filter(Boolean) on an array of strings
FilterBoolean(a) ==
    IF a = <<>> THEN <<>>
    ELSE (IF Truthy(Head(a)) THEN <<Head(a)>> ELSE <<>>) \o FilterBoolean(Tail(a))

parseInstructions(instructions) ==
    IF instructions.k \in {"absent", "null"}
       \/ (instructions.k = "string" /\ ~Truthy(instructions.v.s))
    THEN <<>>
    ELSE IF instructions.k = "array" THEN FilterBoolean(StepTexts(instructions.a))
    ELSE IF instructions.k = "string" THEN <<instructions.v.s>>
    ELSE IF instructions.k = "object" /\ instructions.v.text.k = "string"
         THEN <<instructions.v.text.s>>
    ELSE IF instructions.k = "object" /\ instructions.v.name.k = "string"
         THEN <<instructions.v.name.s>>
    ELSE <<instructions.v.s>>

RECURSIVE FilterStrings(_)
\* .filter(item => typeof item === 'string') of parseJsonLdRecipe
FilterStrings(a) ==
    IF a = <<>> THEN <<>>
    ELSE (IF Head(a).k = "string" THEN <<Head(a).s>> ELSE <<>>) \o FilterStrings(Tail(a))

\* typeof field === 'string' ? formatTime(field) : undefined
JsonLdTime(field) == IF field.k = "string" THEN formatTime(field.s) ELSE Undefined

parseJsonLdRecipe(data) ==
    LET name == IF data.name.k = "string" THEN data.name.s ELSE tUntitled
        ingredients ==
            IF data.recipeIngredient.k = "array" THEN FilterStrings(data.recipeIngredient.a)
            ELSE IF data.recipeIngredient.k = "string" THEN <<data.recipeIngredient.s>>
            ELSE <<>>
        instructions == parseInstructions(data.recipeInstructions)
    IN  WithTimes(Recipe(name, ingredients, instructions),
                  JsonLdTime(data.prepTime), JsonLdTime(data.cookTime),
                  JsonLdTime(data.totalTime))

----------------------------------------------------------------------------
(* Tier 1: JSON-LD *)

RECURSIVE GraphFind(_)
\* item['@graph'].find(node => node['@type'] === 'Recipe'): the node found, "none",
\* or "throw" when a null node is reached first
GraphFind(graph) ==
    IF graph = <<>> THEN [out |-> "none", node |-> NullNode]
    ELSE IF Head(graph).k = "null" THEN [out |-> "throw", node |-> NullNode]
    ELSE IF Head(graph).type = "Recipe" THEN [out |-> "found", node |-> Head(graph)]
    ELSE GraphFind(Tail(graph))

RECURSIVE ScanItems(_)
\* the loop over the elements of one parsed block: "return" with a recipe, "throw"
\* (a TypeError, caught by the block's catch), or "next" when no element matched
ScanItems(items) ==
    IF items = <<>> THEN [out |-> "next", recipe |-> Null]
    ELSE LET item == Head(items) IN
         IF item.node.k = "null" THEN [out |-> "throw", recipe |-> Null]
         ELSE IF item.node.type = "Recipe"
              THEN [out |-> "return", recipe |-> parseJsonLdRecipe(item.node)]
         ELSE IF item.graphK = "nonarray" THEN [out |-> "throw", recipe |-> Null]
         ELSE IF item.graphK = "array"
              THEN LET f == GraphFind(item.graph) IN
                   IF f.out = "throw" THEN [out |-> "throw", recipe |-> Null]
                   ELSE IF f.out = "found"
                        THEN [out |-> "return", recipe |-> parseJsonLdRecipe(f.node)]
                   ELSE ScanItems(Tail(items))
         ELSE ScanItems(Tail(items))

\* the catch of the per-block try: what the scan does with a block that threw
SkipInvalidAbort(rest) == Null
SkipInvalid(rest) == rest

RECURSIVE ScanBlocks(_)
\* the loop of extractFromJsonLd over the script blocks
ScanBlocks(scripts) ==
    IF scripts = <<>> THEN Null
    ELSE LET b == Head(scripts) IN
         IF b.raw = "empty" THEN ScanBlocks(Tail(scripts))
         ELSE IF b.raw = "malformed" THEN SkipInvalid(ScanBlocks(Tail(scripts)))
         ELSE LET r == ScanItems(b.items) IN
              IF r.out = "return" THEN r.recipe
              ELSE IF r.out = "throw" THEN SkipInvalid(ScanBlocks(Tail(scripts)))
              ELSE ScanBlocks(Tail(scripts))

extractFromJsonLd(doc) == ScanBlocks(doc.scripts)

----------------------------------------------------------------------------
(* Tier 2: microdata *)

RECURSIVE TrimmedNonEmpty(_)
\* the .each callbacks of extractFromMicrodata: push the trimmed text if it is not empty
TrimmedNonEmpty(texts) ==
    IF texts = <<>> THEN <<>>
    ELSE (IF Truthy(Trim(Head(texts))) THEN <<Trim(Head(texts))>> ELSE <<>>)
         \o TrimmedNonEmpty(Tail(texts))

\* $(...).first().text() of a list of matched elements: "" when nothing matched
FirstText(texts) == IF texts = <<>> THEN <<>> ELSE Head(texts)

\* the name check of extractFromMicrodata: if (!name) return null
MicrodataNameMissingNever(name) == FALSE
MicrodataNameMissing(name) == ~Truthy(name)

\* first().attr('datetime') || first().text().trim() || undefined, over the elements
\* matched by one itemprop selector (of no element: attr undefined, text "")
MicrodataTime(els) ==
    LET datetime == IF els = <<>> THEN Undefined ELSE Head(els).datetime
        text == Trim(IF els = <<>> THEN <<>> ELSE Head(els).text)
    IN  IF datetime # Undefined /\ Truthy(datetime) THEN datetime
        ELSE IF Truthy(text) THEN text
        ELSE Undefined

extractFromMicrodata(doc) ==
    IF doc.micro = <<>> THEN Null
    ELSE LET recipeEl == Head(doc.micro)
             name == Trim(FirstText(recipeEl.names))
         IN  IF MicrodataNameMissing(name) THEN Null
             ELSE WithTimes(Recipe(name, TrimmedNonEmpty(recipeEl.ingr),
                                   TrimmedNonEmpty(recipeEl.instr)),
                            MicrodataTime(recipeEl.prepTime),
                            MicrodataTime(recipeEl.cookTime),
                            MicrodataTime(recipeEl.totalTime))

----------------------------------------------------------------------------
(* Tier 3: HTML patterns *)

MinTitleLength == 3
MinIngredientLength == 2
MinInstructionLength == 10

RECURSIVE FirstTitle(_)
\* the loop over titleSelectors: titles[i] is $(selector).first().text()
FirstTitle(titles) ==
    IF titles = <<>> THEN <<>>
    ELSE LET title == Trim(Head(titles)) IN
         IF Truthy(title) /\ Len(title) > MinTitleLength THEN title
         ELSE FirstTitle(Tail(titles))

RECURSIVE CollectKeepDuplicates(_, _, _)
RECURSIVE Collect(_, _, _)
CollectKeepDuplicates(texts, minLen, acc) ==
    IF texts = <<>> THEN acc
    ELSE LET t == Trim(Head(texts)) IN
         CollectKeepDuplicates(Tail(texts), minLen,
                               IF Truthy(t) /\ Len(t) > minLen THEN Append(acc, t) ELSE acc)
\* one $(selector).each pass: push each trimmed text that is long enough and not yet in acc
Collect(texts, minLen, acc) ==
    IF texts = <<>> THEN acc
    ELSE LET t == Trim(Head(texts)) IN
         Collect(Tail(texts), minLen,
                 IF Truthy(t) /\ Len(t) > minLen /\ ~Includes(acc, t)
                 THEN Append(acc, t) ELSE acc)

RECURSIVE FirstSelectorMerge(_, _)
RECURSIVE FirstSelector(_, _)
FirstSelectorMerge(perSelector, minLen) ==
    IF perSelector = <<>> THEN <<>>
    ELSE Collect(Head(perSelector), minLen, <<>>)
         \o FirstSelectorMerge(Tail(perSelector), minLen)
\* the loop over the selectors: stop after the first pass that left the array non-empty
FirstSelector(perSelector, minLen) ==
    IF perSelector = <<>> THEN <<>>
    ELSE LET found == Collect(Head(perSelector), minLen, <<>>) IN
         IF Len(found) > 0 THEN found ELSE FirstSelector(Tail(perSelector), minLen)

\* the gate of extractFromHtmlPatterns: return null unless both lists are non-empty
HtmlGateEither(ingredients, instructions) ==
    Len(ingredients) = 0 /\ Len(instructions) = 0
HtmlGateIngredientsOnly(ingredients, instructions) == Len(ingredients) = 0
HtmlGate(ingredients, instructions) ==
    Len(ingredients) = 0 \/ Len(instructions) = 0

extractFromHtmlPatterns(doc) ==
    LET name == FirstTitle(doc.html.titles) IN
    IF ~Truthy(name) THEN Null
    ELSE LET ingredients == FirstSelector(doc.html.ingr, MinIngredientLength)
             instructions == FirstSelector(doc.html.instr, MinInstructionLength)
         IN  IF HtmlGate(ingredients, instructions) THEN Null
             ELSE Recipe(name, ingredients, instructions)

----------------------------------------------------------------------------
(* The cascade of POST *)

\* !recipe
NotFound(recipe) == recipe = Null

\* if (!recipe) recipe = extractFromMicrodata($)
ConsultMicrodataAlways(recipe, doc) == extractFromMicrodata(doc)
ConsultMicrodata(recipe, doc) ==
    IF NotFound(recipe) THEN extractFromMicrodata(doc) ELSE recipe

\* if (!recipe) recipe = extractFromHtmlPatterns($)
ConsultHtmlPatternsNever(recipe, doc) == recipe
ConsultHtmlPatternsAlways(recipe, doc) == extractFromHtmlPatterns(doc)
ConsultHtmlPatterns(recipe, doc) ==
    IF NotFound(recipe) THEN extractFromHtmlPatterns(doc) ELSE recipe

\* lines 356-367: the recipe variable after the three tiers
ExtractRecipe(doc) ==
    ConsultHtmlPatterns(ConsultMicrodata(extractFromJsonLd(doc), doc), doc)

----------------------------------------------------------------------------
(* Responses *)

NoUpstream == [status |-> 0, statusText |-> ""]

CorsHeaders(xcache) ==
    {<<"Access-Control-Allow-Origin", "*">>, <<"Access-Control-Allow-Methods", "POST">>,
     <<"Access-Control-Allow-Headers", "Content-Type">>, <<"X-Cache", xcache>>}

\* NextResponse.json({ recipe }, { headers }): status 200
Success(recipe, xcache) ==
    [status |-> 200, error |-> "", upstream |-> NoUpstream, recipe |-> recipe,
     headers |-> CorsHeaders(xcache)]

\* NextResponse.json({ error }, { status }): no headers are set
Failure(status, error, upstream) ==
    [status |-> status, error |-> error, upstream |-> upstream, recipe |-> Null,
     headers |-> {}]

NoResponse == Failure(0, "", NoUpstream)

\* new NextResponse(null, { status: 200, headers }) of OPTIONS
PreflightResponse ==
    [status |-> 200, error |-> "", upstream |-> NoUpstream, recipe |-> Null,
     headers |-> {<<"Access-Control-Allow-Origin", "*">>,
                  <<"Access-Control-Allow-Methods", "POST, OPTIONS">>,
                  <<"Access-Control-Allow-Headers", "Content-Type">>}]

ErrUrlRequired == Failure(400, "URL is required", NoUpstream)
ErrInvalidUrl == Failure(400, "Invalid URL format", NoUpstream)
ErrFetchFailed(response) ==
    Failure(400, "Failed to fetch recipe page",
            [status |-> response.status, statusText |-> response.statusText])
ErrNoRecipe == Failure(400, "Could not extract recipe from this URL", NoUpstream)
ErrTimeout == Failure(408, "Request timeout", NoUpstream)
ErrInternal == Failure(500, "Failed to parse recipe", NoUpstream)

----------------------------------------------------------------------------
(* Request input and the cache *)

MAX_CACHE_SIZE == 100
TIMEOUT_MS == 10000

\* a url string: its scheme ("" when it has none) and the rest (0 when empty)
Url(scheme, rest) == [scheme |-> scheme, rest |-> rest]

\* !url on a string: only the empty string is falsy
UrlFalsy(url) == url.scheme = "" /\ url.rest = 0

\* new URL(url) without a base: throws unless the string has a scheme
URLParsesAlways(url) == TRUE
URLParses(url) == url.scheme # ""

\* the request body: not JSON at all, or a JSON object with or without a url
Body(json, hasUrl, url) == [json |-> json, hasUrl |-> hasUrl, url |-> url]

MapKeys(cache) == {cache[i].key : i \in 1..Len(cache)}

\* recipeCache.has(url)
CacheHasNever(cache, url) == FALSE
CacheHas(cache, url) == url \in MapKeys(cache)

\* recipeCache.get(url), for a key the map has
CacheGet(cache, url) ==
    cache[CHOOSE i \in 1..Len(cache) : cache[i].key = url].value

MapSetAlwaysAppend(cache, url, recipe) == Append(cache, [key |-> url, value |-> recipe])
\* Map.prototype.set: a new key goes last, a key already there keeps its place
MapSet(cache, url, recipe) ==
    IF url \in MapKeys(cache)
    THEN [i \in 1..Len(cache) |->
            IF cache[i].key = url THEN [key |-> url, value |-> recipe] ELSE cache[i]]
    ELSE Append(cache, [key |-> url, value |-> recipe])

\* Map.prototype.delete
MapDelete(cache, key) == SelectSeq(cache, LAMBDA e : e.key # key)

\* lines 379-383: set, then delete the first key when the size exceeds the maximum
CachePutNoEvict(cache, url, recipe) == MapSet(cache, url, recipe)
CachePutEvictNewest(cache, url, recipe) ==
    LET c == MapSet(cache, url, recipe) IN
    IF Len(c) > MAX_CACHE_SIZE THEN MapDelete(c, c[Len(c)].key) ELSE c
CachePut(cache, url, recipe) ==
    LET c == MapSet(cache, url, recipe) IN
    IF Len(c) > MAX_CACHE_SIZE
    THEN LET firstKey == c[1].key IN
         IF ~UrlFalsy(firstKey) THEN MapDelete(c, firstKey) ELSE c
    ELSE c

\* history: url becomes the most recently used key
Touch(order, url) == Append(SelectSeq(order, LAMBDA k : k # url), url)

\* history: the order of use after the cache changed to cache2 by serving or storing url
Used(order, url, cache2) == SelectSeq(Touch(order, url), LAMBDA k : k \in MapKeys(cache2))

\* response.ok
ResponseOkAlways(response) == TRUE
ResponseOk(response) == response.status >= 200 /\ response.status <= 299

\* recipe.url = url
WithUrlKept(recipe, url) == recipe
WithUrl(recipe, url) == [recipe EXCEPT !.url = url]

----------------------------------------------------------------------------
(* Bounded inputs *)

MaxBlocks == 2
MaxRequests == 2
MaxTicks == 2

NumTitleSelectors == 5
NumIngredientSelectors == 7
NumInstructionSelectors == 7

\* seq followed by as many copies of fill as it takes to reach length n
PadTo(seq, n, fill) == [i \in 1..n |-> IF i <= Len(seq) THEN seq[i] ELSE fill]

RECURSIVE SeqsUpTo(_, _)
\* the sequences over S of length at most n
SeqsUpTo(S, n) ==
    IF n = 0 THEN {<<>>}
    ELSE LET shorter == SeqsUpTo(S, n - 1) IN
         shorter \cup {Append(s, x) : s \in shorter, x \in S}

tPT30M == <<"P", "T", "3", "0", "M">>
tPT1H30M == <<"P", "T", "1", "H", "3", "0", "M">>
t40min == <<" ", "4", "0", " ", "m", "i", "n", " ">>

nodeOther == Node("WebSite", JStr(tStew), IngrAbsent, InstrAbsent)
nodeFull ==
    NodeTimes(
        Node("Recipe", JStr(tSoup), IngrArr(<<JStr(tFlour), JNum, JStr(tEggs)>>),
             InstrArr(<<StepStr(tMix), StepObj(JStr(tStir), JAbsent),
                        StepObj(JAbsent, JStr(tBake))>>)),
        JStr(tPT1H30M), JNum, JStr(t40min))
nodeBare == Node("Recipe", JAbsent, IngrAbsent, InstrAbsent)
nodeEmptyName == Node("Recipe", JStr(tEmpty), IngrStr(tFlour), InstrOne(StepStr(tMix)))
nodeGraph == Node("Recipe", JStr(tStew), IngrStr(tSalt), InstrOne(StepStr(tStir)))

Plain(node) == Item(node, "absent", <<>>)

bMalformed == Block("malformed", FALSE, <<>>)
bEmpty == Block("empty", FALSE, <<>>)
bOther == Block("json", FALSE, <<Plain(nodeOther)>>)
bFull == Block("json", FALSE, <<Plain(nodeFull)>>)
bBare == Block("json", TRUE, <<Plain(nodeOther), Plain(nodeBare)>>)
bGraph == Block("json", FALSE, <<Item(nodeOther, "array", <<nodeOther, nodeGraph>>)>>)
bNullFirst == Block("json", TRUE, <<Plain(NullNode), Plain(nodeFull)>>)
bEmptyName == Block("json", FALSE, <<Plain(nodeEmptyName)>>)
bGraphObject == Block("json", TRUE, <<Item(nodeOther, "nonarray", <<>>), Plain(nodeGraph)>>)

Blocks ==
    {bMalformed, bEmpty, bOther, bFull, bBare, bGraph, bNullFirst, bEmptyName,
     bGraphObject}

MicroEl(names, ingr, instr) ==
    [names |-> names, ingr |-> ingr, instr |-> instr,
     prepTime |-> <<>>, cookTime |-> <<>>, totalTime |-> <<>>]

\* an element carrying a time: its datetime attribute (Undefined if none) and its text
TimeEl(datetime, text) == [datetime |-> datetime, text |-> text]

MicroTimes(el, prepTime, cookTime, totalTime) ==
    [el EXCEPT !.prepTime = prepTime, !.cookTime = cookTime, !.totalTime = totalTime]

mFull ==
    MicroTimes(MicroEl(<<tStew>>, <<tSalt, tBlank, tFlour, tSalt>>, <<tBake, tOk>>),
               <<TimeEl(tPT30M, t40min)>>, <<TimeEl(Undefined, t40min)>>, <<>>)
mBare ==
    MicroTimes(MicroEl(<<tSoup, tPie>>, <<>>, <<tBlank>>),
               <<TimeEl(tEmpty, t40min), TimeEl(tPT30M, tEmpty)>>,
               <<TimeEl(Undefined, tBlank)>>, <<TimeEl(Undefined, tPT1H30M)>>)
mNoName == MicroEl(<<tBlank>>, <<tFlour>>, <<tMix>>)

Micros == {<<>>, <<mFull>>, <<mBare, mFull>>, <<mNoName, mFull>>}

TitleLists ==
    {PadTo(<<>>, NumTitleSelectors, tEmpty),
     PadTo(<<tPie, tEmpty, tStew, tSoup>>, NumTitleSelectors, tEmpty),
     PadTo(<<tBlank, tPie>>, NumTitleSelectors, tEmpty)}

IngredientLists ==
    {PadTo(<<>>, NumIngredientSelectors, <<>>),
     PadTo(<<<<tFlour, tSalt>>, <<tEggs, tFlour, tSalt, tEggs, tOk>>>>,
           NumIngredientSelectors, <<>>),
     PadTo(<<<<tOk, tBlank>>, <<>>, <<tEggs, tOk, tEggs>>>>, NumIngredientSelectors, <<>>)}

InstructionLists ==
    {PadTo(<<>>, NumInstructionSelectors, <<>>),
     PadTo(<<<<tStir, tOk>>, <<tMix, tBake, tMix>>, <<tBake>>>>,
           NumInstructionSelectors, <<>>),
     PadTo(<<<<tStir>>, <<>>, <<tFlour>>>>, NumInstructionSelectors, <<>>)}

Htmls ==
    {[titles |-> t, ingr |-> i, instr |-> s] :
        t \in TitleLists, i \in IngredientLists, s \in InstructionLists}

Doc(scripts, micro, html) == [scripts |-> scripts, micro |-> micro, html |-> html]

\* the documents of the extraction runs
Docs == {Doc(s, m, h) : s \in SeqsUpTo(Blocks, MaxBlocks), m \in Micros, h \in Htmls}

hNone ==
    [titles |-> PadTo(<<>>, NumTitleSelectors, tEmpty),
     ingr |-> PadTo(<<>>, NumIngredientSelectors, <<>>),
     instr |-> PadTo(<<>>, NumInstructionSelectors, <<>>)]

hPlain ==
    [titles |-> PadTo(<<tBlank, tPie, tStew>>, NumTitleSelectors, tEmpty),
     ingr |-> PadTo(<<<<tFlour, tSalt>>>>, NumIngredientSelectors, <<>>),
     instr |-> PadTo(<<<<>>, <<tBake, tStir>>>>, NumInstructionSelectors, <<>>)]

\* the document of a request whose body was not read
NoDoc == Doc(<<>>, <<>>, hNone)

\* the documents the upstream serves in the handler runs
ServedDocs ==
    {Doc(<<bFull>>, <<>>, hNone), Doc(<<>>, <<mBare>>, hNone), Doc(<<>>, <<>>, hPlain),
     Doc(<<>>, <<>>, hNone)}

\* the upstream's answers: status and reason phrase
Responses == {[status |-> 200, statusText |-> "OK"], [status |-> 404, statusText |-> "Not Found"]}

\* the keys of the cache at start, and an address not in it
Key(i) == Url("https", i)
FreshUrls == {Key(MAX_CACHE_SIZE + 1)}

Bodies ==
    {Body(FALSE, FALSE, NoUrl), Body(TRUE, FALSE, NoUrl), Body(TRUE, TRUE, Url("", 0)),
     Body(TRUE, TRUE, Url("", 7))}
    \cup {Body(TRUE, TRUE, u) : u \in {Key(1)} \cup FreshUrls}

Slots == {"a", "b"}

SeedRecipe(i) == WithUrl(Recipe(tSoup, <<tFlour>>, <<tMix>>), Key(i))

\* the cache after n successful requests for Key(1) .. Key(n), none served twice
SeededCache(n) == [i \in 1..n |-> [key |-> Key(i), value |-> SeedRecipe(i)]]

----------------------------------------------------------------------------
(* The POST handler: one action per stretch of code between two awaits *)

\* the model's clock advances by one timeout period at a time
TickMs == TIMEOUT_MS
MaxElapsed == MaxTicks * TickMs

Idle ==
    [pc |-> "idle", body |-> Body(FALSE, FALSE, NoUrl), timer |-> "unset", elapsed |-> 0,
     aborted |-> FALSE, fetches |-> 0, looked |-> FALSE, bodyRead |-> FALSE,
     tiersRun |-> FALSE, cached |-> FALSE, upstream |-> NoUpstream, resp |-> NoResponse,
     method |-> "POST", netError |-> FALSE, doc |-> NoDoc]

InFlight(r) == req[r].pc \in {"fetching", "reading"}

Respond(r, fields, resp) ==
    req' = [req EXCEPT ![r] = [fields EXCEPT !.pc = "done", !.resp = resp]]

\* a request arrives; the handler awaits request.json()
Receive(r, body) ==
    /\ req[r].pc \in {"idle", "done"}
    /\ received < MaxRequests
    /\ req' = [req EXCEPT ![r] = [Idle EXCEPT !.pc = "json", !.body = body]]
    /\ received' = received + 1
    /\ UNCHANGED <<recipeCache, recency, evars, nvars, rvars>>

\* lines 409-418: a pre-flight request is answered at once
Options(r) ==
    /\ req[r].pc \in {"idle", "done"}
    /\ received < MaxRequests
    /\ req' = [req EXCEPT ![r] = [Idle EXCEPT !.pc = "done", !.method = "OPTIONS",
                                               !.resp = PreflightResponse]]
    /\ received' = received + 1
    /\ UNCHANGED <<recipeCache, recency, evars, nvars, rvars>>

\* lines 307-343: the body is parsed; validation, cache lookup, timer, fetch
Begin(r) ==
    LET q == req[r]
        url == q.body.url
    IN
    /\ q.pc = "json"
    /\ IF ~q.body.json
       THEN Respond(r, q, ErrInternal) /\ UNCHANGED <<recipeCache, recency>>
       ELSE IF ~q.body.hasUrl \/ UrlFalsy(url)
       THEN Respond(r, q, ErrUrlRequired) /\ UNCHANGED <<recipeCache, recency>>
       ELSE IF ~URLParses(url)
       THEN Respond(r, q, ErrInvalidUrl) /\ UNCHANGED <<recipeCache, recency>>
       ELSE IF CacheHas(recipeCache, url)
       THEN /\ Respond(r, [q EXCEPT !.looked = TRUE],
                       Success(CacheGet(recipeCache, url), "HIT"))
            /\ recency' = Used(recency, url, recipeCache)
            /\ UNCHANGED recipeCache
       ELSE /\ req' = [req EXCEPT ![r] = [q EXCEPT !.pc = "fetching", !.looked = TRUE,
                                            !.timer = "armed", !.elapsed = 0,
                                            !.fetches = q.fetches + 1]]
            /\ UNCHANGED <<recipeCache, recency>>
    /\ UNCHANGED <<received, evars, nvars, rvars>>

\* time passes for the requests waiting on the upstream; a timer that is due fires,
\* and the rejection it causes is delivered, before time passes again
Tick ==
    /\ \E r \in Slots : InFlight(r) /\ req[r].elapsed < MaxElapsed
    /\ \A r \in Slots : req[r].pc = "fetching" => req[r].elapsed < TIMEOUT_MS
    /\ req' = [r \in Slots |->
                 IF InFlight(r) /\ req[r].elapsed < MaxElapsed
                 THEN [req[r] EXCEPT !.elapsed = @ + TickMs] ELSE req[r]]
    /\ UNCHANGED <<recipeCache, recency, received, evars, nvars, rvars>>

\* line 335: the timer callback runs controller.abort()
TimerFire(r) ==
    /\ req[r].timer = "armed"
    /\ req[r].elapsed >= TIMEOUT_MS
    /\ req' = [req EXCEPT ![r] = [@ EXCEPT !.timer = "fired", !.aborted = TRUE]]
    /\ UNCHANGED <<recipeCache, recency, received, evars, nvars, rvars>>

\* clearTimeout(timeoutId): cancels the timer if it is still armed
ClearTimeoutNoop(timer) == timer
ClearTimeout(timer) == IF timer = "armed" THEN "cleared" ELSE timer

\* lines 393-397: fetch rejects with AbortError
AbortReject(r) ==
    /\ req[r].pc = "fetching"
    /\ req[r].aborted
    /\ Respond(r, [req[r] EXCEPT !.timer = ClearTimeout(@)], ErrTimeout)
    /\ UNCHANGED <<recipeCache, recency, received, evars, nvars, rvars>>

\* lines 345-353: fetch resolves with the response headers
FetchResolve(r, response) ==
    LET q == [req[r] EXCEPT !.timer = ClearTimeout(@), !.upstream = response] IN
    /\ req[r].pc = "fetching"
    /\ ~req[r].aborted
    /\ IF ~ResponseOk(response)
       THEN Respond(r, q, ErrFetchFailed(response))
       ELSE req' = [req EXCEPT ![r] = [q EXCEPT !.pc = "reading"]]
    /\ UNCHANGED <<recipeCache, recency, received, evars, nvars, rvars>>

FetchRejectRetry(r) ==
    /\ req[r].pc = "fetching"
    /\ ~req[r].aborted
    /\ req[r].fetches < 2
    /\ req' = [req EXCEPT ![r] = [@ EXCEPT !.fetches = @ + 1]]
    /\ UNCHANGED <<recipeCache, recency, received, evars, nvars, rvars>>
\* lines 393-404: fetch rejects with a network error, rethrown to the outer catch
FetchReject(r) ==
    /\ req[r].pc = "fetching"
    /\ ~req[r].aborted
    /\ Respond(r, [req[r] EXCEPT !.timer = ClearTimeout(@), !.netError = TRUE],
               ErrInternal)
    /\ UNCHANGED <<recipeCache, recency, received, evars, nvars, rvars>>

\* lines 353-392: response.text() resolves; the tiers run, the recipe is cached
BodyRead(r, doc) ==
    LET q == [req[r] EXCEPT !.bodyRead = TRUE, !.tiersRun = TRUE, !.doc = doc]
        url == q.body.url
        recipe == ExtractRecipe(doc)
    IN
    /\ req[r].pc = "reading"
    /\ IF NotFound(recipe)
       THEN Respond(r, q, ErrNoRecipe) /\ UNCHANGED <<recipeCache, recency>>
       ELSE /\ recipeCache' = CachePut(recipeCache, url, WithUrl(recipe, url))
            /\ recency' = Used(recency, url, recipeCache')
            /\ Respond(r, [q EXCEPT !.cached = TRUE], Success(WithUrl(recipe, url), "MISS"))
    /\ UNCHANGED <<received, evars, nvars, rvars>>

\* lines 353, 393-404: response.text() rejects, rethrown to the outer catch
BodyFail(r) ==
    /\ req[r].pc = "reading"
    /\ Respond(r, [req[r] EXCEPT !.timer = ClearTimeout(@), !.netError = TRUE],
               ErrInternal)
    /\ UNCHANGED <<recipeCache, recency, received, evars, nvars, rvars>>

----------------------------------------------------------------------------
(* The analyze-reviews handler (src/src/app/api/analyze-reviews/route.ts) and its cache *)

REVIEWS_MAX_CACHE_SIZE == 100

MaxReviewRequests == 2

\* the i-th recipe name
Name(i) == <<"n">> \o ToDecimal(i)

\* the request body: not JSON, or a JSON object with or without a recipe; name is
\* recipe.name
ReviewBody(json, hasRecipe, name) == [json |-> json, hasRecipe |-> hasRecipe, name |-> name]

ReviewSuccess(summary, xcache) ==
    [status |-> 200, error |-> "", summary |-> summary, xcache |-> xcache]
ReviewFailure(status, error) ==
    [status |-> status, error |-> error, summary |-> Undefined, xcache |-> ""]

ReviewErrRecipeRequired == ReviewFailure(400, "Recipe is required")
ReviewErrNoKey == ReviewFailure(500, "OpenAI API key is not configured")
ReviewErrNoResponse == ReviewFailure(500, "No response generated")
ReviewErrFailed == ReviewFailure(500, "Failed to generate review summary")
ReviewNoResponse == ReviewFailure(0, "")

\* lines 80-84: set, then delete the first key, if it is truthy, when the size
\* exceeds the maximum
ReviewsCachePut(cache, key, summary) ==
    LET c == MapSet(cache, key, summary) IN
    IF Len(c) > REVIEWS_MAX_CACHE_SIZE
    THEN LET firstKey == c[1].key IN
         IF Truthy(firstKey) THEN MapDelete(c, firstKey) ELSE c
    ELSE c

ReviewIdle == [pc |-> "idle", body |-> ReviewBody(FALSE, FALSE, tEmpty),
               resp |-> ReviewNoResponse]

ReviewRespond(r, resp) ==
    rreq' = [rreq EXCEPT ![r] = [@ EXCEPT !.pc = "done", !.resp = resp]]

\* a request arrives; the handler awaits request.json()
ReviewReceive(r, body) ==
    /\ rreq[r].pc \in {"idle", "done"}
    /\ rreceived < MaxReviewRequests
    /\ rreq' = [rreq EXCEPT ![r] = [ReviewIdle EXCEPT !.pc = "json", !.body = body]]
    /\ rreceived' = rreceived + 1
    /\ UNCHANGED <<reviewsCache, openaiKey, hvars, evars, nvars>>

\* lines 15-66: the body is parsed; validation, cache lookup, call of the completion API
ReviewBegin(r) ==
    LET q == rreq[r] IN
    /\ q.pc = "json"
    /\ IF ~q.body.json THEN ReviewRespond(r, ReviewErrFailed)
       ELSE IF ~q.body.hasRecipe THEN ReviewRespond(r, ReviewErrRecipeRequired)
       ELSE IF ~openaiKey THEN ReviewRespond(r, ReviewErrNoKey)
       ELSE IF CacheHas(reviewsCache, q.body.name)
       THEN ReviewRespond(r, ReviewSuccess(CacheGet(reviewsCache, q.body.name), "HIT"))
       ELSE rreq' = [rreq EXCEPT ![r] = [q EXCEPT !.pc = "calling"]]
    /\ UNCHANGED <<reviewsCache, rreceived, openaiKey, hvars, evars, nvars>>

\* lines 68-93: the completion resolves; content is its text (Undefined if it has none)
ReviewComplete(r, content) ==
    LET cacheKey == rreq[r].body.name
        trimmedSummary == Trim(content)
    IN
    /\ rreq[r].pc = "calling"
    /\ IF content = Undefined \/ ~Truthy(content)
       THEN ReviewRespond(r, ReviewErrNoResponse) /\ UNCHANGED reviewsCache
       ELSE /\ reviewsCache' = ReviewsCachePut(reviewsCache, cacheKey, trimmedSummary)
            /\ ReviewRespond(r, ReviewSuccess(trimmedSummary, "MISS"))
    /\ UNCHANGED <<rreceived, openaiKey, hvars, evars, nvars>>

\* lines 58, 95-101: the completion call rejects
ReviewFail(r) ==
    /\ rreq[r].pc = "calling"
    /\ ReviewRespond(r, ReviewErrFailed)
    /\ UNCHANGED <<reviewsCache, rreceived, openaiKey, hvars, evars, nvars>>

ReviewsIdle ==
    /\ reviewsCache = <<>>
    /\ rreq = [r \in Slots |-> ReviewIdle]
    /\ rreceived = 0
    /\ openaiKey = TRUE

NormalizeIdle ==
    /\ nin = [kind |-> "none", time |-> <<>>, instr |-> InstrAbsent]
    /\ npc = "idle"
    /\ nout = [time |-> Undefined, steps |-> <<>>]

ExtractIdle ==
    /\ edoc = Doc(<<>>, <<>>, hNone)
    /\ epc = "idle"
    /\ erecipe = Null
    /\ econsulted = <<>>
    /\ eresp = NoResponse

Init ==
    /\ \E n \in {MAX_CACHE_SIZE - 1, MAX_CACHE_SIZE} :
          /\ recipeCache = SeededCache(n)
          /\ recency = [i \in 1..n |-> Key(i)]
    /\ req = [r \in Slots |-> Idle]
    /\ received = 0
    /\ ExtractIdle
    /\ NormalizeIdle
    /\ ReviewsIdle

Next ==
    \/ \E r \in Slots, body \in Bodies : Receive(r, body)
    \/ \E r \in Slots : Options(r)
    \/ \E r \in Slots : Begin(r)
    \/ Tick
    \/ \E r \in Slots : TimerFire(r)
    \/ \E r \in Slots : AbortReject(r)
    \/ \E r \in Slots, response \in Responses : FetchResolve(r, response)
    \/ \E r \in Slots : FetchReject(r)
    \/ \E r \in Slots, doc \in ServedDocs : BodyRead(r, doc)
    \/ \E r \in Slots : BodyFail(r)

Spec == Init /\ [][Next]_vars

----------------------------------------------------------------------------
(* An extraction run: lines 354-392 of POST on one loaded document, tier by tier *)

ExtractUrl == Key(1)

TryJsonLd ==
    /\ epc = "jsonld"
    /\ erecipe' = extractFromJsonLd(edoc)
    /\ econsulted' = Append(econsulted, "jsonld")
    /\ epc' = "microdata"
    /\ UNCHANGED <<edoc, eresp, hvars, nvars, rvars>>

TryMicrodata ==
    /\ epc = "microdata"
    /\ erecipe' = ConsultMicrodata(erecipe, edoc)
    /\ econsulted' = IF NotFound(erecipe) THEN Append(econsulted, "microdata") ELSE econsulted
    /\ epc' = "html"
    /\ UNCHANGED <<edoc, eresp, hvars, nvars, rvars>>

TryHtmlPatterns ==
    /\ epc = "html"
    /\ erecipe' = ConsultHtmlPatterns(erecipe, edoc)
    /\ econsulted' = IF NotFound(erecipe) THEN Append(econsulted, "html") ELSE econsulted
    /\ epc' = "respond"
    /\ UNCHANGED <<edoc, eresp, hvars, nvars, rvars>>

Finish ==
    /\ epc = "respond"
    /\ IF NotFound(erecipe)
       THEN eresp' = ErrNoRecipe /\ UNCHANGED <<recipeCache, recency>>
       ELSE /\ recipeCache' = CachePut(recipeCache, ExtractUrl, WithUrl(erecipe, ExtractUrl))
            /\ recency' = Used(recency, ExtractUrl, recipeCache')
            /\ eresp' = Success(WithUrl(erecipe, ExtractUrl), "MISS")
    /\ epc' = "done"
    /\ UNCHANGED <<edoc, erecipe, econsulted, req, received, nvars, rvars>>

InitExtract ==
    /\ recipeCache = <<>>
    /\ recency = <<>>
    /\ req = [r \in Slots |-> Idle]
    /\ received = 0
    /\ edoc \in Docs
    /\ epc = "jsonld"
    /\ erecipe = Null
    /\ econsulted = <<>>
    /\ eresp = NoResponse
    /\ NormalizeIdle
    /\ ReviewsIdle

NextExtract == TryJsonLd \/ TryMicrodata \/ TryHtmlPatterns \/ Finish

SpecExtract == InitExtract /\ [][NextExtract]_vars

----------------------------------------------------------------------------
(* Normalizer runs: formatTime and parseInstructions, each on one input *)

MaxSteps == 3

\* "45 minutes", and other texts that are no PT durations
tMinutes45 == <<"4", "5", " ", "m", "i", "n", "u", "t", "e", "s">>
tDayTime == <<"P", "1", "D", "T", "2", "H">>
tLowerPt == <<"p", "t", "5", "M">>
tSeconds == <<"2", "0", "S">>

\* the digits of a component, with the number they denote and its decimal form
Components ==
    {[digits |-> <<"0">>, n |-> 0, shown |-> <<"0">>],
     [digits |-> <<"1">>, n |-> 1, shown |-> <<"1">>],
     [digits |-> <<"2">>, n |-> 2, shown |-> <<"2">>],
     [digits |-> <<"0", "5">>, n |-> 5, shown |-> <<"5">>],
     [digits |-> <<"3", "0">>, n |-> 30, shown |-> <<"3", "0">>],
     [digits |-> <<"4", "5">>, n |-> 45, shown |-> <<"4", "5">>]}

NoComponent == [digits |-> <<>>, n |-> 0, shown |-> <<>>]

Suffixes == {<<>>, tSeconds, <<" ">>}

\* PT, then the hours part, the minutes part and the suffix
Duration(h, m, suffix) ==
    <<"P", "T">>
    \o (IF h = NoComponent THEN <<>> ELSE h.digits \o <<"H">>)
    \o (IF m = NoComponent THEN <<>> ELSE m.digits \o <<"M">>)
    \o suffix

Durations ==
    {Duration(h, m, s) :
        h \in Components \cup {NoComponent}, m \in Components \cup {NoComponent},
        s \in Suffixes}

TimeInputs == Durations \cup {tEmpty, tMinutes45, tDayTime, tLowerPt, tBake}

Steps ==
    {StepStr(tMix), StepStr(tEmpty), StepObj(JStr(tStir), JAbsent),
     StepObj(JAbsent, JStr(tBake)), StepObj(JStr(tStir), JStr(tBake)),
     StepObj(JStr(tEmpty), JStr(tBake)), StepObj(JNum, JStr(tBake)),
     StepObj(JAbsent, JAbsent), StepNull, StepNum}

InstructionInputs ==
    {InstrAbsent} \cup {InstrOne(s) : s \in Steps}
    \cup {InstrArr(a) : a \in SeqsUpTo(Steps, MaxSteps)}

CallFormatTime ==
    /\ npc = "call"
    /\ nin.kind = "time"
    /\ nout' = [nout EXCEPT !.time = formatTime(nin.time)]
    /\ npc' = "done"
    /\ UNCHANGED <<nin, hvars, evars, rvars>>

CallParseInstructions ==
    /\ npc = "call"
    /\ nin.kind = "instr"
    /\ nout' = [nout EXCEPT !.steps = parseInstructions(nin.instr)]
    /\ npc' = "done"
    /\ UNCHANGED <<nin, hvars, evars, rvars>>

InitNormalize ==
    /\ recipeCache = <<>>
    /\ recency = <<>>
    /\ req = [r \in Slots |-> Idle]
    /\ received = 0
    /\ ExtractIdle
    /\ nin \in {[kind |-> "time", time |-> t, instr |-> InstrAbsent] : t \in TimeInputs}
              \cup {[kind |-> "instr", time |-> <<>>, instr |-> i] : i \in InstructionInputs}
    /\ npc = "call"
    /\ nout = [time |-> Undefined, steps |-> <<>>]
    /\ ReviewsIdle

NextNormalize == CallFormatTime \/ CallParseInstructions

SpecNormalize == InitNormalize /\ [][NextNormalize]_vars

----------------------------------------------------------------------------
(* Runs of the analyze-reviews handler *)

ReviewSummary == <<" ", "o", "k", "\n">>

\* a cache left by n earlier requests; the first of them had the empty name or not
SeededReviews(n, emptyFirst) ==
    [i \in 1..n |->
        [key |-> IF i = 1 /\ emptyFirst THEN tEmpty ELSE Name(i), value |-> tOk]]

ReviewNames == {tEmpty, Name(2), Name(REVIEWS_MAX_CACHE_SIZE + 1), Name(REVIEWS_MAX_CACHE_SIZE + 2)}

ReviewBodies ==
    {ReviewBody(FALSE, FALSE, tEmpty), ReviewBody(TRUE, FALSE, tEmpty)}
    \cup {ReviewBody(TRUE, TRUE, n) : n \in ReviewNames}

Contents == {ReviewSummary, tEmpty, Undefined}

InitReviews ==
    /\ recipeCache = <<>>
    /\ recency = <<>>
    /\ req = [r \in Slots |-> Idle]
    /\ received = 0
    /\ ExtractIdle
    /\ NormalizeIdle
    /\ rreq = [r \in Slots |-> ReviewIdle]
    /\ rreceived = 0
    /\ \/ openaiKey = FALSE /\ reviewsCache = <<>>
       \/ /\ openaiKey = TRUE
          /\ \E n \in {0, REVIEWS_MAX_CACHE_SIZE - 1, REVIEWS_MAX_CACHE_SIZE},
                emptyFirst \in BOOLEAN :
                reviewsCache = SeededReviews(n, emptyFirst)

NextReviews ==
    \/ \E r \in Slots, body \in ReviewBodies : ReviewReceive(r, body)
    \/ \E r \in Slots : ReviewBegin(r)
    \/ \E r \in Slots, content \in Contents : ReviewComplete(r, content)
    \/ \E r \in Slots : ReviewFail(r)

SpecReviews == InitReviews /\ [][NextReviews]_vars

----------------------------------------------------------------------------
(* Properties of the extraction cascade, checked under SpecExtract *)

TierOrder == <<"jsonld", "microdata", "html">>

IsPrefix(s, t) == Len(s) <= Len(t) /\ SubSeq(t, 1, Len(s)) = s

\* some selector's candidates hold a text whose trimmed length exceeds minLen
HasQualifying(perSelector, minLen) ==
    \E i \in 1..Len(perSelector) : \E j \in 1..Len(perSelector[i]) :
        Len(Trim(perSelector[i][j])) > minLen

HasTitle(titles) == \E i \in 1..Len(titles) : Len(Trim(titles[i])) > MinTitleLength

\* C1: the tiers are consulted in the order JSON-LD, microdata, HTML patterns, each
\* only if every earlier one returned null, and the recipe answered is exactly the
\* result of the first tier that returned non-null (with the request's url); a
\* document with a JSON-LD recipe and microdata markup is answered with the JSON-LD
\* tier's recipe.
C1_TierPrecedence ==
    LET J == extractFromJsonLd(edoc)
        M == extractFromMicrodata(edoc)
        H == extractFromHtmlPatterns(edoc)
        first == IF J # Null THEN J ELSE IF M # Null THEN M ELSE H
        needed == IF J # Null THEN 1 ELSE IF M # Null THEN 2 ELSE 3
    IN  /\ IsPrefix(econsulted, TierOrder)
        /\ Len(econsulted) <= needed
        /\ epc \in {"respond", "done"} => erecipe = first /\ Len(econsulted) = needed
        /\ epc = "done" /\ first # Null => eresp = Success(WithUrl(first, ExtractUrl), "MISS")
        /\ epc = "done" /\ J # Null /\ edoc.micro # <<>> => eresp.recipe = WithUrl(J, ExtractUrl)

C1_Witness ==
    /\ epc = "done"
    /\ eresp.status = 200
    /\ extractFromJsonLd(edoc) # Null
    /\ extractFromMicrodata(edoc) # Null
    /\ extractFromMicrodata(edoc) # extractFromJsonLd(edoc)

\* C2 as stated: every success response has at least one ingredient and at least one
\* instruction, whichever tier produced the recipe.
C2_NoPartialSuccess ==
    eresp.status = 200 =>
        Len(eresp.recipe.ingredients) > 0 /\ Len(eresp.recipe.instructions) > 0

\* C2 as amended: every success response whose recipe the HTML-pattern tier produced
\* has at least one ingredient and at least one instruction.
C2_HeuristicSuccessComplete ==
    eresp.status = 200 /\ Includes(econsulted, "html") =>
        Len(eresp.recipe.ingredients) > 0 /\ Len(eresp.recipe.instructions) > 0

C2_Witness ==
    /\ epc = "done"
    /\ eresp.status = 200
    /\ Includes(econsulted, "html")
    /\ Len(eresp.recipe.ingredients) = 2

\* C3: extractFromHtmlPatterns returns null unless the document has a qualifying
\* title, a qualifying ingredient and a qualifying instruction; a document with a
\* title and no ingredient candidate, for which the first two tiers return null, is
\* answered with the "could not extract recipe" error, status 400.
C3_HeuristicGate ==
    /\ extractFromHtmlPatterns(edoc) # Null =>
          /\ HasTitle(edoc.html.titles)
          /\ HasQualifying(edoc.html.ingr, MinIngredientLength)
          /\ HasQualifying(edoc.html.instr, MinInstructionLength)
    /\ ( /\ epc = "done"
         /\ HasTitle(edoc.html.titles)
         /\ ~HasQualifying(edoc.html.ingr, MinIngredientLength)
         /\ extractFromJsonLd(edoc) = Null
         /\ extractFromMicrodata(edoc) = Null )
       => eresp = ErrNoRecipe /\ eresp.status = 400 /\ recipeCache = <<>>

C3_Witness ==
    /\ epc = "done"
    /\ HasTitle(edoc.html.titles)
    /\ \A i \in 1..Len(edoc.html.ingr) : edoc.html.ingr[i] = <<>>
    /\ HasQualifying(edoc.html.instr, MinInstructionLength)
    /\ econsulted = TierOrder
    /\ eresp = ErrNoRecipe

RemoveMalformed(scripts) == SelectSeq(scripts, LAMBDA b : b.raw # "malformed")

\* C4: the result of extractFromJsonLd on a document equals its result on the same
\* document with the blocks that are not valid JSON removed.
C4_MalformedSkipped ==
    epc = "microdata" => erecipe = ScanBlocks(RemoveMalformed(edoc.scripts))

C4_Witness ==
    /\ epc = "microdata"
    /\ Len(edoc.scripts) = 2
    /\ edoc.scripts[1] = bMalformed
    /\ edoc.scripts[2] = bFull
    /\ erecipe = parseJsonLdRecipe(nodeFull)

----------------------------------------------------------------------------
(* Properties of the handler, checked under Spec *)

InvalidInput(body) == ~body.hasUrl \/ body.url.scheme = ""

\* C5 as stated: a request whose retrieval (headers and body) is not complete when
\* the timeout expires waits no longer and is answered 408.
C5_TimeoutBoundsRetrieval ==
    \A r \in Slots :
        /\ InFlight(r) => req[r].elapsed <= TIMEOUT_MS
        /\ req[r].pc = "done" /\ req[r].fetches > 0 /\ req[r].elapsed > TIMEOUT_MS
              => req[r].resp = ErrTimeout

\* C6: a request whose url is missing or does not parse is answered 400 with no
\* fetch issued, no cache lookup made and no timer armed.
C6_InvalidInputRejectedFirst ==
    \A r \in Slots :
        req[r].body.json /\ InvalidInput(req[r].body) =>
            /\ req[r].fetches = 0
            /\ ~req[r].looked
            /\ req[r].timer = "unset"
            /\ req[r].pc \in {"json", "done"}
            /\ req[r].pc = "done" => req[r].resp.status = 400

C6_Witness ==
    \E r \in Slots :
        /\ req[r].pc = "done"
        /\ req[r].body = Body(TRUE, TRUE, Url("", 7))
        /\ req[r].resp = ErrInvalidUrl

\* C7: a non-2xx upstream answer gives a 400 whose message carries the upstream
\* status and reason phrase; the body is not read, no tier runs, nothing is cached.
C7_UpstreamFailure ==
    \A r \in Slots :
        req[r].upstream.status # 0
        /\ (req[r].upstream.status < 200 \/ req[r].upstream.status > 299) =>
            /\ req[r].pc = "done"
            /\ req[r].resp.status = 400
            /\ req[r].resp.upstream = req[r].upstream
            /\ req[r].resp.recipe = Null
            /\ ~req[r].bodyRead
            /\ ~req[r].tiersRun
            /\ ~req[r].cached

C7_Witness ==
    \E r \in Slots :
        /\ req[r].pc = "done"
        /\ req[r].upstream = [status |-> 404, statusText |-> "Not Found"]
        /\ req[r].resp.status = 400

\* C8: recipeCache never holds more than MAX_CACHE_SIZE entries, at any point where
\* a handler yields or completes.
C8_CacheBounded == Len(recipeCache) <= MAX_CACHE_SIZE

C8_Witness ==
    /\ Len(recipeCache) = MAX_CACHE_SIZE
    /\ Key(1) \notin MapKeys(recipeCache)
    /\ Key(MAX_CACHE_SIZE + 1) \in MapKeys(recipeCache)

\* C9: a request that reaches the cache lookup while its url has an entry is answered
\* with that entry's recipe and issues no fetch, whatever the other requests do.
C9_CachedServedWithoutFetch ==
    [][\A r \in Slots :
          ( /\ req[r].pc = "json"
            /\ req'[r] # req[r]
            /\ req[r].body.json
            /\ ~InvalidInput(req[r].body)
            /\ \E i \in 1..Len(recipeCache) : recipeCache[i].key = req[r].body.url )
          => /\ req'[r].pc = "done"
             /\ req'[r].resp.status = 200
             /\ \E i \in 1..Len(recipeCache) :
                   /\ recipeCache[i].key = req[r].body.url
                   /\ req'[r].resp.recipe = recipeCache[i].value
             /\ req'[r].fetches = 0
             /\ recipeCache' = recipeCache]_vars

C9_Witness ==
    \A r \in Slots :
        /\ req[r].pc = "done"
        /\ req[r].body.url = Key(1)
        /\ req[r].resp = Success(SeedRecipe(1), "HIT")
        /\ req[r].fetches = 0

\* C10 as stated: the entry evicted by an insertion beyond capacity is the least
\* recently used one, a cache hit and an insertion both counting as a use.
C10_EvictsLeastRecentlyUsed ==
    [][\A k \in MapKeys(recipeCache) \ MapKeys(recipeCache') :
          recency # <<>> /\ k = Head(recency)]_vars

----------------------------------------------------------------------------
(* Properties of the normalizers, checked under SpecNormalize *)

Parts == Components \cup {NoComponent}

ShownBoth(h, m) == h.shown \o <<"h", " ">> \o m.shown \o <<"m">>
ShownHours(h) == h.shown \o <<"h">>
ShownMinutes(m) == m.shown \o <<"m">>

\* C11 as stated: a duration PT[h]H[m]M with at least one component present is
\* rendered by the components present ("{h}h {m}m", "{h}h", "{m}m"); every other
\* input is returned unchanged.
C11_FormatTimeByPresence ==
    npc = "done" /\ nin.kind = "time" /\ nin.time # <<>> =>
        IF \E h, m \in Parts :
              <<h, m>> # <<NoComponent, NoComponent>> /\ nin.time = Duration(h, m, <<>>)
        THEN \A h, m \in Parts :
                nin.time = Duration(h, m, <<>>) =>
                    nout.time = IF h # NoComponent /\ m # NoComponent THEN ShownBoth(h, m)
                                ELSE IF h # NoComponent THEN ShownHours(h)
                                ELSE ShownMinutes(m)
        ELSE nout.time = nin.time

\* C11 as amended: for a string that starts with PT, an optional hours part and an
\* optional minutes part, the rendering is by the components that are not zero
\* ("{h}h {m}m", "{h}h", "{m}m", in decimal), whatever follows the parts; a string
\* that does not start with PT, or whose components are both absent or zero, is
\* returned unchanged.
C11_FormatTimeByNonZero ==
    npc = "done" /\ nin.kind = "time" /\ nin.time # <<>> =>
        IF \E h, m \in Parts, s \in Suffixes :
              (h.n # 0 \/ m.n # 0) /\ nin.time = Duration(h, m, s)
        THEN \A h, m \in Parts, s \in Suffixes :
                nin.time = Duration(h, m, s) =>
                    nout.time = IF h.n # 0 /\ m.n # 0 THEN ShownBoth(h, m)
                                ELSE IF h.n # 0 THEN ShownHours(h)
                                ELSE ShownMinutes(m)
        ELSE nout.time = nin.time

C11_Witness ==
    /\ npc = "done"
    /\ nin.time = <<"P", "T", "1", "H", "3", "0", "M">>
    /\ nout.time = <<"1", "h", " ", "3", "0", "m">>

\* a field that holds a non-empty string
IsText(f) == f.k = "string" /\ f.s # <<>>

NonEmptyOnly(texts) == SelectSeq(texts, LAMBDA t : t # <<>>)

\* the field of a step-object the claims call "the text field if present, else the name"
FieldOf(e) == IF e.text.k = "string" THEN e.text.s ELSE e.name.s

\* the text an element stands for: the string, or the step-object's field; "" if none
TextOf(e) ==
    IF e.k = "string" THEN e.s
    ELSE IF e.k = "object" /\ (e.text.k = "string" \/ e.name.k = "string") THEN FieldOf(e)
    ELSE <<>>

\* a string, a step-object with a text, or a step-object with a name
IsStep(e) == e.k = "string" \/ (e.k = "object" /\ (e.text.k = "string" \/ e.name.k = "string"))

\* C12 as stated: a sequence of strings and step-objects with a text or a name gives
\* one string per element, in order; an absent value gives the empty sequence and a
\* single string a one-element sequence.
C12_OnePerElement ==
    npc = "done" /\ nin.kind = "instr" =>
        /\ nin.instr.k = "absent" => nout.steps = <<>>
        /\ nin.instr.k = "string" => nout.steps = <<nin.instr.v.s>>
        /\ nin.instr.k = "array" /\ (\A i \in 1..Len(nin.instr.a) : IsStep(nin.instr.a[i]))
              => nout.steps = [i \in 1..Len(nin.instr.a) |-> TextOf(nin.instr.a[i])]

\* C12 as amended: a sequence whose elements are each a non-empty string, a
\* step-object whose text is a non-empty string, or a step-object without a string
\* text whose name is a non-empty string gives one string per element, in order; an
\* absent value gives the empty sequence, a single non-empty string a one-element
\* sequence.
C12_OnePerNonEmptyElement ==
    npc = "done" /\ nin.kind = "instr" =>
        /\ nin.instr.k = "absent" => nout.steps = <<>>
        /\ nin.instr.k = "string" /\ nin.instr.v.s # <<>> => nout.steps = <<nin.instr.v.s>>
        /\ nin.instr.k = "array"
           /\ (\A i \in 1..Len(nin.instr.a) :
                  IsStep(nin.instr.a[i]) /\ TextOf(nin.instr.a[i]) # <<>>)
              => nout.steps = [i \in 1..Len(nin.instr.a) |-> TextOf(nin.instr.a[i])]

C12_Witness ==
    /\ npc = "done"
    /\ nin.instr = InstrArr(<<StepStr(tMix), StepObj(JStr(tStir), JAbsent),
                              StepObj(JAbsent, JStr(tBake))>>)
    /\ nout.steps = <<tMix, tStir, tBake>>

\* C19 as stated: the output of a sequence has one entry for each element that is a
\* non-empty string or a step-object with a text or name, and no entry for any other
\* element (here: for sequences of strings and objects).
C19_DropsUnusable ==
    npc = "done" /\ nin.kind = "instr" /\ nin.instr.k = "array"
    /\ (\A i \in 1..Len(nin.instr.a) : nin.instr.a[i].k \in {"string", "object"}) =>
        nout.steps = NonEmptyOnly([i \in 1..Len(nin.instr.a) |-> TextOf(nin.instr.a[i])])

\* C20 as stated: a step-object with usable text under either key contributes it,
\* alone or inside a sequence, the text field being used when both hold usable text.
C20_UsableFieldUsed ==
    LET Usable(e) == e.k = "object" /\ (IsText(e.text) \/ IsText(e.name))
        Used2(e) == IF IsText(e.text) THEN e.text.s ELSE e.name.s
    IN  npc = "done" /\ nin.kind = "instr" =>
            /\ nin.instr.k = "object" /\ Usable(nin.instr.v) => nout.steps = <<Used2(nin.instr.v)>>
            /\ nin.instr.k = "array" /\ (\A i \in 1..Len(nin.instr.a) : Usable(nin.instr.a[i]))
                  => nout.steps = [i \in 1..Len(nin.instr.a) |-> Used2(nin.instr.a[i])]

\* C20 as amended: a step-object gives its text field whenever that is a string, the
\* empty string included, and its name field only when text is not a string: alone
\* it gives the one-element sequence of that value, inside a sequence it contributes
\* the value unless it is empty.
C20_TextFieldFirst ==
    LET HasField(e) == e.k = "object" /\ (e.text.k = "string" \/ e.name.k = "string") IN
    npc = "done" /\ nin.kind = "instr" =>
        /\ nin.instr.k = "object" /\ HasField(nin.instr.v) => nout.steps = <<FieldOf(nin.instr.v)>>
        /\ nin.instr.k = "array" /\ (\A i \in 1..Len(nin.instr.a) : HasField(nin.instr.a[i]))
              => nout.steps =
                    NonEmptyOnly([i \in 1..Len(nin.instr.a) |-> FieldOf(nin.instr.a[i])])

C20_Witness ==
    /\ npc = "done"
    /\ nin.instr = InstrArr(<<StepObj(JStr(tStir), JStr(tBake)), StepObj(JStr(tEmpty), JStr(tBake))>>)
    /\ nout.steps = <<tStir>>

----------------------------------------------------------------------------
(* Further properties of the extraction cascade, checked under SpecExtract *)

\* C13 as stated: every recipe of a success response has a non-empty name.
C13_NameNonEmpty == eresp.status = 200 => eresp.recipe.name # <<>>

NodeIsRecipe(n) == n.k = "object" /\ n.type = "Recipe"

\* the element is typed Recipe, or its @graph collection holds a node typed Recipe
ItemHasRecipe(item) ==
    \/ NodeIsRecipe(item.node)
    \/ item.graphK = "array" /\ \E j \in 1..Len(item.graph) : NodeIsRecipe(item.graph[j])

ItemRecipeNode(item) ==
    IF NodeIsRecipe(item.node) THEN item.node
    ELSE item.graph[CHOOSE j \in 1..Len(item.graph) :
                       /\ NodeIsRecipe(item.graph[j])
                       /\ \A k \in 1..(j - 1) : ~NodeIsRecipe(item.graph[k])]

BlockHasRecipe(b) == b.raw = "json" /\ \E i \in 1..Len(b.items) : ItemHasRecipe(b.items[i])

\* the recipe of the first element, in array order, that has a Recipe node
BlockRecipe(b) ==
    parseJsonLdRecipe(ItemRecipeNode(
        b.items[CHOOSE i \in 1..Len(b.items) :
                   /\ ItemHasRecipe(b.items[i])
                   /\ \A k \in 1..(i - 1) : ~ItemHasRecipe(b.items[k])]))

\* C17 as stated: extractFromJsonLd returns the recipe of the first block, in
\* document order, that contains a Recipe-typed node.
C17_FirstRecipeBlockWins ==
    epc = "microdata" =>
        erecipe = IF \E i \in 1..Len(edoc.scripts) : BlockHasRecipe(edoc.scripts[i])
                  THEN BlockRecipe(edoc.scripts[
                           CHOOSE i \in 1..Len(edoc.scripts) :
                              /\ BlockHasRecipe(edoc.scripts[i])
                              /\ \A k \in 1..(i - 1) : ~BlockHasRecipe(edoc.scripts[k])])
                  ELSE Null

\* C18 as stated: within one parsed block the elements are examined in array order
\* and the first that is typed Recipe, or whose @graph holds a Recipe node, is taken;
\* an element that is neither does not stop the later elements from being examined.
C18_ElementsExaminedInOrder ==
    epc = "microdata" /\ Len(edoc.scripts) = 1 /\ edoc.scripts[1].raw = "json" =>
        erecipe = IF BlockHasRecipe(edoc.scripts[1]) THEN BlockRecipe(edoc.scripts[1])
                  ELSE Null

----------------------------------------------------------------------------
(* Further properties of the handler, checked under Spec *)

UpstreamFailed(q) ==
    q.upstream.status # 0 /\ (q.upstream.status < 200 \/ q.upstream.status > 299)

\* C14: each tier leaves url empty; every success response carries the url of its
\* request, and every cache entry's recipe carries the entry's key as url.
C14_UrlIsRequestUrl ==
    /\ \A doc \in ServedDocs :
          /\ extractFromJsonLd(doc) # Null => extractFromJsonLd(doc).url = NoUrl
          /\ extractFromMicrodata(doc) # Null => extractFromMicrodata(doc).url = NoUrl
          /\ extractFromHtmlPatterns(doc) # Null => extractFromHtmlPatterns(doc).url = NoUrl
    /\ \A r \in Slots :
          req[r].pc = "done" /\ req[r].method = "POST" /\ req[r].resp.status = 200 =>
              req[r].resp.recipe.url = req[r].body.url
    /\ \A i \in 1..Len(recipeCache) : recipeCache[i].value.url = recipeCache[i].key

C14_Witness ==
    \E r \in Slots :
        /\ req[r].pc = "done"
        /\ req[r].cached
        /\ req[r].body.url = Key(MAX_CACHE_SIZE + 1)
        /\ req[r].resp.recipe.url = Key(MAX_CACHE_SIZE + 1)
        /\ \E i \in 1..Len(recipeCache) :
              recipeCache[i] = [key |-> Key(MAX_CACHE_SIZE + 1), value |-> req[r].resp.recipe]

\* C15 as stated: every response to a POST carries Access-Control-Allow-Origin: *,
\* and every OPTIONS request is answered 200 allowing POST with Content-Type.
C15_CorsOnEveryResponse ==
    \A r \in Slots :
        req[r].pc = "done" =>
            /\ <<"Access-Control-Allow-Origin", "*">> \in req[r].resp.headers
            /\ req[r].method = "OPTIONS" =>
                  /\ req[r].resp.status = 200
                  /\ <<"Access-Control-Allow-Methods", "POST, OPTIONS">> \in req[r].resp.headers
                  /\ <<"Access-Control-Allow-Headers", "Content-Type">> \in req[r].resp.headers

\* C16: an error response is given only for missing or invalid input, a failed fetch
\* (timeout, network error, non-2xx) or a document for which all three tiers return
\* null; a valid request whose 2xx body was read and for which some tier returns a
\* recipe is answered 200 with a recipe.
C16_ErrorsOnlyWhenJustified ==
    \A r \in Slots :
        LET q == req[r]
            anyTier ==
                \/ extractFromJsonLd(q.doc) # Null
                \/ extractFromMicrodata(q.doc) # Null
                \/ extractFromHtmlPatterns(q.doc) # Null
        IN  q.pc = "done" /\ q.method = "POST" =>
                /\ q.resp.status # 200 =>
                      \/ ~q.body.json
                      \/ InvalidInput(q.body)
                      \/ q.aborted /\ q.resp = ErrTimeout
                      \/ q.netError
                      \/ UpstreamFailed(q)
                      \/ q.bodyRead /\ ~anyTier
                /\ q.bodyRead /\ anyTier =>
                      /\ q.resp.status = 200
                      /\ q.resp.error = ""
                      /\ q.resp.recipe # Null

C16_Witness ==
    \E r \in Slots :
        /\ req[r].pc = "done"
        /\ req[r].bodyRead
        /\ extractFromJsonLd(req[r].doc) = Null
        /\ extractFromMicrodata(req[r].doc) = Null
        /\ req[r].resp.status = 200
        /\ req[r].resp.recipe = WithUrl(extractFromHtmlPatterns(req[r].doc), req[r].body.url)

----------------------------------------------------------------------------
(* Returned times *)

Times(recipe) == {recipe.prepTime, recipe.cookTime, recipe.totalTime}

\* the machine duration format: the text formatTime takes for an ISO 8601 duration
IsMachineDuration(time) == time # Undefined /\ StartsWith(time, <<"P", "T">>)

\* C21 as stated: no prepTime, cookTime or totalTime of a returned recipe is in
\* machine duration format, whichever tier produced the recipe.
C21_NoMachineDuration ==
    eresp.status = 200 => \A time \in Times(eresp.recipe) : ~IsMachineDuration(time)

----------------------------------------------------------------------------
(* The microdata tier *)

Consulted(tier) == \E i \in 1..Len(econsulted) : econsulted[i] = tier

\* no name annotation of the element has text left after trimming
NoNameAnnotation(el) == \A i \in 1..Len(el.names) : Trim(el.names[i]) = <<>>

\* C22: when the first recipe-typed element has no non-empty name annotation,
\* extractFromMicrodata returns null (no fallback name, no later element's recipe),
\* and a handler that consulted the microdata tier goes on to the heuristic tier and
\* answers with that tier's result.
C22_MissingNameIsNull ==
    edoc.micro # <<>> /\ NoNameAnnotation(Head(edoc.micro)) =>
        LET H == extractFromHtmlPatterns(edoc) IN
        /\ extractFromMicrodata(edoc) = Null
        /\ Consulted("microdata") =>
              /\ epc = "html" => erecipe = Null
              /\ epc \in {"respond", "done"} => Consulted("html") /\ erecipe = H
              /\ epc = "done" =>
                    eresp = IF H = Null THEN ErrNoRecipe
                            ELSE Success(WithUrl(H, ExtractUrl), "MISS")

C22_Witness ==
    /\ epc = "done"
    /\ edoc.micro = <<mNoName, mFull>>
    /\ econsulted = <<"jsonld", "microdata", "html">>
    /\ eresp.status = 200

\* C23 as stated: if some recipe-typed element with a non-empty name exists,
\* extractFromMicrodata returns a non-null recipe.
C23_NamedElementGivesRecipe ==
    (\E i \in 1..Len(edoc.micro) : ~NoNameAnnotation(edoc.micro[i]))
        => extractFromMicrodata(edoc) # Null

\* C23, amended: if the first name annotation of the first recipe-typed element is
\* non-empty, extractFromMicrodata returns a recipe with that name whatever its
\* lists hold, and a handler that consulted the microdata tier does not consult the
\* heuristic tier and answers 200 with that record.
C23_FirstNamedElementGivesRecipe ==
    edoc.micro # <<>> /\ Truthy(Trim(FirstText(Head(edoc.micro).names))) =>
        LET M == extractFromMicrodata(edoc) IN
        /\ M # Null
        /\ M.name = Trim(FirstText(Head(edoc.micro).names))
        /\ Consulted("microdata") =>
              /\ ~Consulted("html")
              /\ epc \in {"html", "respond", "done"} => erecipe = M
              /\ epc = "done" => eresp = Success(WithUrl(M, ExtractUrl), "MISS")

C23_Witness ==
    /\ epc = "done"
    /\ Consulted("microdata")
    /\ eresp.status = 200
    /\ eresp.recipe.ingredients = <<>>
    /\ eresp.recipe.instructions = <<>>
    /\ extractFromHtmlPatterns(edoc) # Null

----------------------------------------------------------------------------
(* The heuristic tier's lists *)

\* the candidate qualifies: its trimmed text is longer than minLen
Qualifies(text, minLen) == Len(Trim(text)) > minLen

\* the selectors, in list order, that have a qualifying candidate
Yielding(perSelector, minLen) ==
    {i \in 1..Len(perSelector) :
        \E j \in 1..Len(perSelector[i]) : Qualifies(perSelector[i][j], minLen)}

FirstYielding(perSelector, minLen) ==
    CHOOSE i \in Yielding(perSelector, minLen) :
        \A k \in Yielding(perSelector, minLen) : i <= k

\* the position in texts of the first candidate whose trimmed text is x
FirstAt(texts, x) ==
    CHOOSE j \in 1..Len(texts) :
        Trim(texts[j]) = x /\ \A k \in 1..(j - 1) : Trim(texts[k]) # x

\* list holds exactly the qualifying candidates of texts, in document order
HoldsQualifying(list, texts, minLen) ==
    /\ \A j \in 1..Len(texts) :
          Qualifies(texts[j], minLen) => \E i \in 1..Len(list) : list[i] = Trim(texts[j])
    /\ \A i \in 1..Len(list) :
          \E j \in 1..Len(texts) : Qualifies(texts[j], minLen) /\ list[i] = Trim(texts[j])
    /\ \A i, k \in 1..Len(list) : i < k => FirstAt(texts, list[i]) < FirstAt(texts, list[k])

FromFirstYielding(list, perSelector, minLen) ==
    IF Yielding(perSelector, minLen) = {} THEN list = <<>>
    ELSE HoldsQualifying(list, perSelector[FirstYielding(perSelector, minLen)], minLen)

\* C24: the ingredient list (and likewise the instruction list) of the heuristic
\* tier holds exactly the qualifying candidates of the first selector, in list
\* order, that has a qualifying candidate, in document order, and nothing of a later
\* selector; the handler answers with these lists.
C24_FirstSelectorOnly ==
    /\ FromFirstYielding(FirstSelector(edoc.html.ingr, MinIngredientLength),
                         edoc.html.ingr, MinIngredientLength)
    /\ FromFirstYielding(FirstSelector(edoc.html.instr, MinInstructionLength),
                         edoc.html.instr, MinInstructionLength)
    /\ LET H == extractFromHtmlPatterns(edoc) IN
       /\ H # Null =>
             /\ FromFirstYielding(H.ingredients, edoc.html.ingr, MinIngredientLength)
             /\ FromFirstYielding(H.instructions, edoc.html.instr, MinInstructionLength)
       /\ epc = "done" /\ Consulted("html") /\ eresp.status = 200 =>
             /\ eresp.recipe.ingredients = H.ingredients
             /\ eresp.recipe.instructions = H.instructions

C24_Witness ==
    /\ epc = "done"
    /\ Consulted("html")
    /\ Len(edoc.html.ingr[1]) = 2
    /\ Len(edoc.html.ingr[2]) = 5
    /\ eresp.status = 200
    /\ eresp.recipe.ingredients = <<Trim(edoc.html.ingr[1][1]), Trim(edoc.html.ingr[1][2])>>

NoDuplicates(list) == \A i, k \in 1..Len(list) : i # k => list[i] # list[k]

SomeCandidate(perSelector, x) ==
    \E i \in 1..Len(perSelector) : \E j \in 1..Len(perSelector[i]) :
        Trim(perSelector[i][j]) = x

\* C25: in a recipe of the heuristic tier every ingredient is a trimmed candidate text
\* longer than 2 characters, every instruction a trimmed candidate text longer than 10
\* characters, neither list holds a text twice, and the name is the trimmed text,
\* longer than 3 characters, of the first title selector that has such a text; the
\* handler answers with this recipe.
C25_HeuristicRecipeWellFormed ==
    LET H == extractFromHtmlPatterns(edoc) IN
    /\ H # Null =>
          /\ \A i \in 1..Len(H.ingredients) :
                /\ Trim(H.ingredients[i]) = H.ingredients[i]
                /\ Len(H.ingredients[i]) > 2
                /\ SomeCandidate(edoc.html.ingr, H.ingredients[i])
          /\ \A i \in 1..Len(H.instructions) :
                /\ Trim(H.instructions[i]) = H.instructions[i]
                /\ Len(H.instructions[i]) > 10
                /\ SomeCandidate(edoc.html.instr, H.instructions[i])
          /\ NoDuplicates(H.ingredients)
          /\ NoDuplicates(H.instructions)
          /\ \E k \in 1..Len(edoc.html.titles) :
                /\ H.name = Trim(edoc.html.titles[k])
                /\ Len(H.name) > 3
                /\ \A j \in 1..(k - 1) : Len(Trim(edoc.html.titles[j])) <= 3
    /\ epc = "done" /\ Consulted("html") /\ eresp.status = 200 =>
          eresp.recipe = WithUrl(H, ExtractUrl)

C25_Witness ==
    /\ epc = "done"
    /\ Consulted("html")
    /\ eresp.status = 200
    /\ Len(Trim(edoc.html.titles[1])) = 3
    /\ eresp.recipe.name = Trim(edoc.html.titles[3])
    /\ \E i \in 1..Len(edoc.html.instr) :
          /\ ~NoDuplicates(edoc.html.instr[i])
          /\ \E j \in 1..Len(edoc.html.instr[i]) :
                Trim(edoc.html.instr[i][j]) = eresp.recipe.instructions[1]

----------------------------------------------------------------------------
(* Failure of the fetch *)

\* the request's fetch timed out, was answered non-2xx, or met a network error
FetchFailed(q) == q.aborted \/ UpstreamFailed(q) \/ q.netError

FailedStaysFailed(r) ==
    FetchFailed(req[r]) =>
        \/ req'[r] = req[r]
        \/ req[r].pc = "fetching" /\ req'[r] = [req[r] EXCEPT !.pc = "done", !.resp = ErrTimeout]
        \/ req[r].pc = "done" /\ req'[r].pc \in {"json", "done"} /\ req'[r].fetches = 0

\* C26: a request issues at most one fetch; once its fetch has timed out, been
\* answered non-2xx or met a network error, no tier has run or will run for it, its
\* only further step is the delivery of the error response, and that response is the
\* 408, the 400 or the 500.
C26_FetchFailureTerminal ==
    /\ [](\A r \in Slots :
             /\ req[r].fetches <= 1
             /\ FetchFailed(req[r]) =>
                   /\ ~req[r].tiersRun
                   /\ req[r].fetches = 1
                   /\ req[r].pc \in {"fetching", "done"}
                   /\ req[r].pc = "done" =>
                         req[r].resp \in {ErrTimeout, ErrFetchFailed(req[r].upstream),
                                          ErrInternal})
    /\ [][\A r \in Slots : FailedStaysFailed(r)]_vars

C26_Witness ==
    \E r, s \in Slots :
        /\ req[r].pc = "done" /\ req[r].aborted /\ req[r].resp = ErrTimeout
        /\ req[s].pc = "done" /\ UpstreamFailed(req[s]) /\ req[s].resp.status = 400
        /\ req[r].fetches = 1 /\ req[s].fetches = 1

----------------------------------------------------------------------------
(* The cache of analyze-reviews *)

\* C27 as stated: reviewsCache never holds more than 100 entries, whatever the
\* recipe names of the requests are, the empty string included.
C27_ReviewsCacheBounded == Len(reviewsCache) <= REVIEWS_MAX_CACHE_SIZE

----------------------------------------------------------------------------
(* What changes recipeCache *)

\* the step delivers the response of request r
Completes(r) == req[r].pc \in {"json", "fetching", "reading"} /\ req'[r].pc = "done"

\* the response delivered is the success of a fresh extraction
FreshSuccess(r) ==
    /\ Completes(r)
    /\ req'[r].resp.status = 200
    /\ <<"X-Cache", "MISS">> \in req'[r].resp.headers

\* every change of recipeCache comes with the success of a fresh extraction; a step
\* that delivers an error or a cached recipe leaves recipeCache as it is
OnlySuccessChangesCache ==
    /\ recipeCache' # recipeCache => \E r \in Slots : FreshSuccess(r)
    /\ \A r \in Slots : Completes(r) /\ ~FreshSuccess(r) => recipeCache' = recipeCache

\* C28 as stated: only a successful extraction changes recipeCache, and a successful
\* extraction inserts exactly one entry, keyed by its url.
C28_SuccessInsertsOneEntry ==
    [][/\ OnlySuccessChangesCache
       /\ \A r \in Slots :
             FreshSuccess(r) =>
                 MapKeys(recipeCache') \ MapKeys(recipeCache) = {req[r].body.url}]_vars

\* C28, amended: only a successful extraction changes recipeCache; it stores its
\* recipe under its url, as a new last entry (the oldest entry being removed when the
\* size would exceed the maximum) or, when a concurrent request for the same url has
\* stored one meanwhile, in the place of that entry; every other entry keeps its
\* value and its place in the order.
C28_SuccessStoresOneEntry ==
    [][/\ OnlySuccessChangesCache
       /\ \A r \in Slots :
             FreshSuccess(r) =>
                 LET url == req[r].body.url
                     entry == [key |-> url, value |-> req'[r].resp.recipe]
                 IN  /\ Cardinality({i \in 1..Len(recipeCache') :
                                       recipeCache'[i].key = url}) = 1
                     /\ IF CacheHas(recipeCache, url)
                        THEN recipeCache' =
                                [i \in 1..Len(recipeCache) |->
                                    IF recipeCache[i].key = url THEN entry
                                    ELSE recipeCache[i]]
                        ELSE recipeCache' =
                                IF Len(recipeCache) < MAX_CACHE_SIZE
                                THEN Append(recipeCache, entry)
                                ELSE Tail(Append(recipeCache, entry))]_vars

C28_Witness ==
    \E r, s \in Slots :
        /\ req[r].pc = "done" /\ req[r].cached /\ req[r].resp.status = 200
        /\ req[s].pc = "done" /\ req[s].bodyRead /\ req[s].resp = ErrNoRecipe
        /\ req[r].body.url = req[s].body.url
        /\ CacheGet(recipeCache, req[r].body.url) = req[r].resp.recipe

----------------------------------------------------------------------------
(* The timeout timer *)

\* C29: a request that armed its timer has responded only with the timer cleared or
\* fired; a timer is armed only while its request awaits fetch, and abort() is
\* invoked only on a request that still awaits fetch.
C29_NoTimerLeftArmed ==
    /\ [](\A r \in Slots :
             /\ req[r].timer = "armed" => req[r].pc = "fetching"
             /\ req[r].pc = "done" /\ req[r].fetches > 0 =>
                   req[r].timer \in {"cleared", "fired"}
             /\ req[r].pc = "done" /\ req[r].timer = "fired" => req[r].resp = ErrTimeout)
    /\ [][\A r \in Slots :
             req'[r].aborted /\ ~req[r].aborted =>
                 req[r].pc = "fetching" /\ req'[r].pc = "fetching"]_vars

C29_Witness ==
    \E r, s \in Slots :
        /\ req[r].pc = "done" /\ req[r].timer = "fired" /\ req[r].resp = ErrTimeout
        /\ req[s].pc = "done" /\ req[s].timer = "cleared"
        /\ req[s].resp \in {ErrNoRecipe, ErrInternal}

----------------------------------------------------------------------------
(* Concurrent requests for one url *)

\* some step of the handler is possible for request r
CanStep(r) ==
    \/ ENABLED AbortReject(r)
    \/ ENABLED (\E response \in Responses : FetchResolve(r, response))
    \/ ENABLED (\E doc \in ServedDocs : BodyRead(r, doc))

\* r and s are distinct requests for the same url that both missed the cache
BothMissed(r, s) ==
    /\ r # s
    /\ req[r].body.url = req[s].body.url
    /\ req[r].pc \in {"fetching", "reading", "done"} /\ req[r].fetches > 0
    /\ req[s].pc \in {"fetching", "reading", "done"} /\ req[s].fetches > 0

\* C30: two requests for the same uncached url that overlap each issue their own
\* fetch, neither ever waits for the other (each can always take its next step, and
\* a finished one has a response), and recipeCache never holds two entries for one
\* url nor more than MAX_CACHE_SIZE entries.
C30_ConcurrentSameUrl ==
    /\ \A r, s \in Slots :
          BothMissed(r, s) =>
              /\ req[r].fetches = 1 /\ req[s].fetches = 1
              /\ req[r].pc = "done" => req[r].resp.status \in {200, 400, 408, 500}
    /\ \A r, s \in Slots :
          BothMissed(r, s) /\ req[r].pc \in {"fetching", "reading"} => CanStep(r)
    /\ Cardinality(MapKeys(recipeCache)) = Len(recipeCache)
    /\ Len(recipeCache) <= MAX_CACHE_SIZE

C30_Witness ==
    \E r, s \in Slots :
        /\ BothMissed(r, s)
        /\ req[r].pc = "done" /\ req[r].cached
        /\ req[s].pc = "done" /\ req[s].cached
        /\ Cardinality({i \in 1..Len(recipeCache) :
                          recipeCache[i].key = req[r].body.url}) = 1
        /\ Len(recipeCache) = MAX_CACHE_SIZE

====
